---- MODULE Spec2Model ----
(***************************************************************************)
(* Secure Folder API (backend/server.py): the request handlers over the    *)
(* MongoDB collections users, documents, access_logs, failed_attempts and   *)
(* intruder_photos.                                                        *)
(*                                                                         *)
(* Every handler is an async coroutine; it runs atomically up to each      *)
(* awaited storage (or e-mail provider) call, so a handler is modelled as  *)
(* one action per awaited call, taking with it the local computation that  *)
(* precedes and follows the call.  Requests of different clients           *)
(* interleave at these points.                                             *)
(***************************************************************************)
EXTENDS Integers, Sequences, FiniteSets, TLC

\* ------------------------------------------------------------------ bounds

\* Most records the users collection holds (create_user is refused a slot
\* beyond it).
MaxUsers == 2

\* Most records added to failed_attempts.
MaxAttempts == 2

\* Most records added to access_logs.
MaxAccess == 2

\* Latest reading of the clock.
MaxTime == 1

\* Most records logged where the listings are read up to their caps.
MaxListed == 1

\* Most records logged in the ledger that starts empty.
MaxLogged == 2

\* Most documents created.
MaxDocs == 2

\* ------------------------------------------------------- program constants

\* get_access_logs, export_access_logs: to_list(1000)
AccessLogsCap == 1000

\* get_failed_attempts: to_list(100)
FailedAttemptsCap == 100

\* to_list(100) of get_user_documents and get_documents_by_type.
DocumentsCap == 100

\* ------------------------------------------------------------------ inputs

\* Concurrent clients, each with at most one request in flight.
Reqs == {"r1", "r2"}

\* E-mail addresses a client may send, as sequences of characters: the same
\* address with its local part in lower and in upper case.
Emails == {<<"a", "@", "x">>, <<"A", "@", "x">>}

\* PINs a client may send.
Pins == {"1234", "5678"}

\* Optional[T]: None is <<>>, a value v is <<v>>.
None == <<>>

Some(v) == <<v>>

\* Optional[str] intruder_photo values: absent, the empty string, a payload.
Photos == {None, Some(""), Some("data:image/jpeg;base64,AAAA")}

\* Optional[float] latitude / longitude pairs of a request.
Geos == {<<None, None>>, <<Some(51), Some(0)>>}

\* ------------------------------------------------------------------- state

VARIABLES
  users,            \* db.users: the documents in insertion order
  failed_attempts,  \* db.failed_attempts
  intruder_photos,  \* db.intruder_photos
  documents,        \* db.documents
  deleted_ids,      \* ids of the documents deleted: uuid4 returns no id twice
  access_logs,      \* db.access_logs
  req,              \* per client: the handler in flight and its locals
  last,             \* the HTTP response the latest step sent, if it sent one
  now,              \* datetime.utcnow()
  sendgrid_key,     \* os.environ.get('SENDGRID_API_KEY')
  sg_result         \* what the provider did with the latest sg.send(message)

vars == <<users, failed_attempts, intruder_photos, documents, deleted_ids, access_logs,
          req, last, now, sendgrid_key, sg_result>>

\* ------------------------------------------------------------ pure helpers

\* str.lower() on one character of the model's alphabet.
LowerChar(c) == IF c = "A" THEN "a" ELSE c

\* str.lower().
Lower(s) == [i \in 1..Len(s) |-> LowerChar(s[i])]

\* A digest function under which two PINs collide.
hash_pin_colliding(pin) == "03ac674216f3e15c761ee1a5e255f067953623c8b388b4459e13f978d7c846f4"

\* hashlib.sha256(pin.encode()).hexdigest(), tabulated on the model's PINs.
hash_pin(pin) ==
  CASE pin = "1234" -> "03ac674216f3e15c761ee1a5e255f067953623c8b388b4459e13f978d7c846f4"
    [] pin = "5678" -> "f8638b979b2f4f793ddb6dbd197e0ee25a7a6ea32b0ae22f5e3c5d119d839e75"
    [] pin = "0000" -> "9af15b336e6a9619928537df30b2e6a2376569fcf9d7e773eccede65606529a0"
    [] pin = "9999" -> "888df25ae35772424a560c7152a1de794440e0ea5cfee62828333a456a506e05"

\* A verifier that accepts every PIN.
verify_pin_always(pin, hashed) == TRUE

\* verify_pin
verify_pin(pin, hashed) == hash_pin(pin) = hashed

\* Python truthiness of an Optional[str]: None and "" are falsy.
Truthy(opt) == opt # None /\ opt[1] # ""

\* A document matches a filter {field: value, ...} when it has each of the
\* filter's fields with the filter's value.
Matches(doc, filter) ==
  \A f \in DOMAIN filter : f \in DOMAIN doc /\ doc[f] = filter[f]

\* collection.find_one(filter): the first document matching, or None.
FindOne(coll, filter) ==
  LET hits == {i \in 1..Len(coll) : Matches(coll[i], filter)}
  IN IF hits = {} THEN None
     ELSE Some(coll[CHOOSE i \in hits : \A j \in hits : i <= j])

\* collection.update_one(filter, {"$set": set}): the fields of set written
\* to the first document matching, every other document as it was.
UpdateOne(coll, filter, set) ==
  LET hits == {i \in 1..Len(coll) : Matches(coll[i], filter)}
  IN IF hits = {} THEN coll
     ELSE LET k == CHOOSE i \in hits : \A j \in hits : i <= j
          IN [coll EXCEPT ![k] =
                [f \in DOMAIN coll[k] \cup DOMAIN set |->
                   IF f \in DOMAIN set THEN set[f] ELSE coll[k][f]]]

\* UserResponse(id=..., email=..., created_at=..., is_premium=...)
UserResponse(u) ==
  [id |-> u.id, email |-> u.email, created_at |-> u.created_at,
   is_premium |-> u.is_premium]

\* raise HTTPException(status_code, detail)
HTTPException(code, detail) == [status |-> code, body |-> [detail |-> detail]]

\* A handler's return value, sent with status 200.
Ok(body) == [status |-> 200, body |-> body]

Idle == [pc |-> "idle"]

\* The step sent no response.
NoResponse ==
  [req |-> "none", op |-> "none", args |-> [x |-> 0], status |-> 0, body |-> [x |-> 0]]

\* The response r sends for operation op called with args; the client is
\* idle again.
Respond(r, op, args, resp) ==
  /\ last' = [req |-> r, op |-> op, args |-> args,
              status |-> resp.status, body |-> resp.body]
  /\ req' = [req EXCEPT ![r] = Idle]

\* sg.send(message) has not been called.
NotSent == [called |-> FALSE, raised |-> FALSE, status_code |-> 0]

\* sg.send(message) returned a response with this status code.
Status(code) == [called |-> TRUE, raised |-> FALSE, status_code |-> code]

\* Building or sending the message raised.
Raised == [called |-> TRUE, raised |-> TRUE, status_code |-> 0]

\* What the provider may do with a message: accept it (202), refuse it, raise.
ProviderOutcomes == {Status(202), Status(401), Raised}

\* ------------------------------------------------------------------- Init

Init ==
  /\ users = <<>>
  /\ failed_attempts = <<>>
  /\ intruder_photos = <<>>
  /\ documents = <<>>
  /\ deleted_ids = {}
  /\ access_logs = <<>>
  /\ req = [r \in Reqs |-> Idle]
  /\ last = NoResponse
  /\ now = 0
  /\ sendgrid_key \in {None, Some("SG.key")}
  /\ sg_result = NotSent

\* Every id stored in a collection or held by a handler in flight.
UsedIds ==
  {users[i].id : i \in 1..Len(users)}
    \cup {failed_attempts[i].id : i \in 1..Len(failed_attempts)}
    \cup {intruder_photos[i].id : i \in 1..Len(intruder_photos)}
    \cup {intruder_photos[i].attempt_id : i \in 1..Len(intruder_photos)}
    \cup {documents[i].id : i \in 1..Len(documents)}
    \cup deleted_ids
    \cup {access_logs[i].id : i \in 1..Len(access_logs)}
    \cup {req[r].user_dict.id : r \in {q \in Reqs : req[q].pc = "insert_user"}}
    \cup {req[r].attempt_dict.id :
            r \in {q \in Reqs : req[q].pc \in {"insert_attempt", "send_email"}}}

\* str(uuid.uuid4()): an id that occurs nowhere in the system (the least
\* number not in use stands for it).
uuid4(used) ==
  CHOOSE n \in 1..(Cardinality(used) + 1) :
    n \notin used /\ \A m \in 1..(n - 1) : m \in used

\* Users stored or about to be inserted by a request in flight.
UsersClaimed == Len(users) + Cardinality({r \in Reqs : req[r].pc = "insert_user"})

\* ------------------------------------------------------------ user routes

\* create_user without the check for an existing user.
CreateUserFind_NoCheck(r, email, pin) ==
  /\ req[r].pc = "idle"
  /\ UsersClaimed < MaxUsers
  /\ req' = [req EXCEPT ![r] =
               [pc |-> "insert_user",
                args |-> [email |-> email, pin |-> pin],
                user_dict |-> [id |-> uuid4(UsedIds), email |-> email,
                               pin_hash |-> hash_pin(pin),
                               created_at |-> now,
                               is_premium |-> FALSE]]]
  /\ last' = NoResponse
  /\ UNCHANGED <<users, failed_attempts, intruder_photos, now, documents, deleted_ids, access_logs, sendgrid_key, sg_result>>

\* create_user up to "await db.users.insert_one": the find_one, the 400, and
\* the user_dict built for the insert.
CreateUserFind(r, email, pin) ==
  /\ req[r].pc = "idle"
  /\ UsersClaimed < MaxUsers
  /\ LET existing == FindOne(users, [email |-> email])
     IN IF existing # None
        THEN /\ Respond(r, "create_user", [email |-> email, pin |-> pin],
                        HTTPException(400, "User already exists"))
             /\ UNCHANGED users
        ELSE /\ req' = [req EXCEPT ![r] =
                          [pc |-> "insert_user",
                           args |-> [email |-> email, pin |-> pin],
                           user_dict |-> [id |-> uuid4(UsedIds), email |-> email,
                                          pin_hash |-> hash_pin(pin),
                                          created_at |-> now,
                                          is_premium |-> FALSE]]]
             /\ last' = NoResponse
             /\ UNCHANGED users
  /\ UNCHANGED <<failed_attempts, intruder_photos, now, documents, deleted_ids, access_logs, sendgrid_key, sg_result>>

\* create_user from "await db.users.insert_one(user_dict)" to its return.
CreateUserInsert(r) ==
  /\ req[r].pc = "insert_user"
  /\ users' = Append(users, req[r].user_dict)
  /\ Respond(r, "create_user", req[r].args, Ok(UserResponse(req[r].user_dict)))
  /\ UNCHANGED <<failed_attempts, intruder_photos, now, documents, deleted_ids, access_logs, sendgrid_key, sg_result>>

\* get_user_by_email
GetUserByEmail(r, email) ==
  /\ req[r].pc = "idle"
  /\ LET user == FindOne(users, [email |-> Lower(email)])
     IN Respond(r, "get_user_by_email", [email |-> email],
                IF user = None THEN HTTPException(404, "User not found")
                ELSE Ok(UserResponse(user[1])))
  /\ UNCHANGED <<users, failed_attempts, intruder_photos, now, documents, deleted_ids, access_logs, sendgrid_key, sg_result>>

\* verify_user_pin on the users collection us: the response it sends.
VerifyUserPinResponse(us, user_id, pin) ==
  LET user == FindOne(us, [id |-> user_id])
  IN IF user = None THEN HTTPException(404, "User not found")
     ELSE IF verify_pin(pin, user[1].pin_hash)
          THEN Ok([success |-> TRUE, message |-> "PIN verified"])
          ELSE Ok([success |-> FALSE, message |-> "Invalid PIN"])

\* verify_user_pin logging the attempt itself when it refuses the PIN.
VerifyUserPin_Logging(r, user_id, pin) ==
  /\ req[r].pc = "idle"
  /\ Respond(r, "verify_user_pin", [user_id |-> user_id, pin |-> pin],
             VerifyUserPinResponse(users, user_id, pin))
  /\ failed_attempts' =
       IF VerifyUserPinResponse(users, user_id, pin).status = 200
          /\ ~VerifyUserPinResponse(users, user_id, pin).body.success
          /\ Len(failed_attempts) < MaxAttempts
       THEN Append(failed_attempts,
                   [id |-> uuid4(UsedIds), user_id |-> user_id, timestamp |-> now,
                    latitude |-> None, longitude |-> None])
       ELSE failed_attempts
  /\ UNCHANGED <<users, intruder_photos, now, documents, deleted_ids, access_logs, sendgrid_key, sg_result>>

\* verify_user_pin
VerifyUserPin(r, user_id, pin) ==
  /\ req[r].pc = "idle"
  /\ Respond(r, "verify_user_pin", [user_id |-> user_id, pin |-> pin],
             VerifyUserPinResponse(users, user_id, pin))
  /\ UNCHANGED <<users, failed_attempts, intruder_photos, now, documents, deleted_ids, access_logs, sendgrid_key, sg_result>>

\* update_pin without the check of old_pin.
UpdatePinFind_NoVerify(r, user_id, old_pin, new_pin) ==
  /\ req[r].pc = "idle"
  /\ LET user == FindOne(users, [id |-> user_id])
         args == [user_id |-> user_id, old_pin |-> old_pin, new_pin |-> new_pin]
     IN IF user = None
        THEN Respond(r, "update_pin", args, HTTPException(404, "User not found"))
        ELSE /\ req' = [req EXCEPT ![r] = [pc |-> "update_pin", args |-> args]]
             /\ last' = NoResponse
  /\ UNCHANGED <<users, failed_attempts, intruder_photos, now, documents, deleted_ids, access_logs, sendgrid_key, sg_result>>

\* update_pin up to "await db.users.update_one": the find_one, the 404 and
\* the 401.
UpdatePinFind(r, user_id, old_pin, new_pin) ==
  /\ req[r].pc = "idle"
  /\ LET user == FindOne(users, [id |-> user_id])
         args == [user_id |-> user_id, old_pin |-> old_pin, new_pin |-> new_pin]
     IN IF user = None
        THEN Respond(r, "update_pin", args, HTTPException(404, "User not found"))
        ELSE IF ~verify_pin(old_pin, user[1].pin_hash)
        THEN Respond(r, "update_pin", args, HTTPException(401, "Invalid current PIN"))
        ELSE /\ req' = [req EXCEPT ![r] = [pc |-> "update_pin", args |-> args]]
             /\ last' = NoResponse
  /\ UNCHANGED <<users, failed_attempts, intruder_photos, now, documents, deleted_ids, access_logs, sendgrid_key, sg_result>>

\* An update_pin that writes only where the digest it checked is still
\* stored, and answers 401 otherwise.
UpdatePinWrite_IfUnchanged(r) ==
  /\ req[r].pc = "update_pin"
  /\ LET filter == [id |-> req[r].args.user_id,
                    pin_hash |-> hash_pin(req[r].args.old_pin)]
     IN /\ users' = UpdateOne(users, filter,
                              [pin_hash |-> hash_pin(req[r].args.new_pin)])
        /\ Respond(r, "update_pin", req[r].args,
                   IF FindOne(users, filter) = None
                   THEN HTTPException(401, "Invalid current PIN")
                   ELSE Ok([success |-> TRUE, message |-> "PIN updated"]))
  /\ UNCHANGED <<failed_attempts, intruder_photos, now, documents, deleted_ids, access_logs, sendgrid_key, sg_result>>

\* update_pin from "await db.users.update_one(...)" to its return.
UpdatePinWrite(r) ==
  /\ req[r].pc = "update_pin"
  /\ users' = UpdateOne(users, [id |-> req[r].args.user_id],
                        [pin_hash |-> hash_pin(req[r].args.new_pin)])
  /\ Respond(r, "update_pin", req[r].args,
             Ok([success |-> TRUE, message |-> "PIN updated"]))
  /\ UNCHANGED <<failed_attempts, intruder_photos, now, documents, deleted_ids, access_logs, sendgrid_key, sg_result>>

\* User ids a client may send: the id of every stored user, and 0, which no
\* user has.
UserIds == {users[i].id : i \in 1..Len(users)} \cup {0}

NextUsers ==
  \/ \E r \in Reqs, email \in Emails, pin \in Pins : CreateUserFind(r, email, pin)
  \/ \E r \in Reqs : CreateUserInsert(r)
  \/ \E r \in Reqs, email \in Emails : GetUserByEmail(r, email)
  \/ \E r \in Reqs, id \in UserIds, pin \in Pins : VerifyUserPin(r, id, pin)
  \/ \E r \in Reqs, id \in UserIds, old \in Pins, new \in Pins :
       UpdatePinFind(r, id, old, new)
  \/ \E r \in Reqs : UpdatePinWrite(r)

\* The credential store needs no mail provider.
InitUsers == Init /\ sendgrid_key = None

\* The credential store under concurrent clients.
SpecUsers == InitUsers /\ [][NextUsers]_vars

\* -------------------------------------------------- failed attempt routes

\* The records failed_attempts started with: none, or as many as the cap of
\* get_failed_attempts.
AttemptsBase ==
  IF Len(failed_attempts) >= FailedAttemptsCap THEN FailedAttemptsCap ELSE 0

\* Attempts added, or about to be inserted by a request in flight.
AttemptsClaimed ==
  Len(failed_attempts) - AttemptsBase
    + Cardinality({r \in Reqs : req[r].pc = "insert_attempt"})

\* An unhandled exception of a handler: the framework answers 500.
InternalServerError == [status |-> 500, body |-> [detail |-> "Internal Server Error"]]

\* log_failed_attempt
LogFailedAttempt(r, user_id, geo) ==
  /\ req[r].pc = "idle"
  /\ AttemptsClaimed < MaxAttempts
  /\ failed_attempts' = Append(failed_attempts,
                               [id |-> uuid4(UsedIds), user_id |-> user_id,
                                timestamp |-> now,
                                latitude |-> geo[1], longitude |-> geo[2]])
  /\ Respond(r, "log_failed_attempt",
             [user_id |-> user_id, latitude |-> geo[1], longitude |-> geo[2]],
             Ok([success |-> TRUE, message |-> "Failed attempt logged"]))
  /\ UNCHANGED <<users, intruder_photos, now, documents, deleted_ids, access_logs, sendgrid_key, sg_result>>

\* send_failed_alert at "await db.failed_attempts.insert_one(attempt_dict)":
\* the insert, or the exception it raises when the write fails.
InsertAttempt(r, args, attempt_dict, write_ok) ==
  IF write_ok
  THEN /\ failed_attempts' = Append(failed_attempts, attempt_dict)
       /\ req' = [req EXCEPT ![r] = [pc |-> "send_email", args |-> args,
                                     attempt_dict |-> attempt_dict]]
       /\ last' = NoResponse
  ELSE /\ Respond(r, "send_failed_alert", args, InternalServerError)
       /\ UNCHANGED failed_attempts

\* send_failed_alert up to its first awaited insert: attempt_dict, and then
\* the photo_record and its insert when the photo is truthy, the attempt's
\* insert otherwise.
SendAlertCall(r, user_id, email, geo, photo, write_ok) ==
  /\ req[r].pc = "idle"
  /\ AttemptsClaimed < MaxAttempts
  /\ Len(intruder_photos) < MaxAttempts
  /\ LET args == [user_id |-> user_id, email |-> email, latitude |-> geo[1],
                  longitude |-> geo[2], intruder_photo |-> photo]
         attempt_dict == [id |-> uuid4(UsedIds), user_id |-> user_id,
                          timestamp |-> now, latitude |-> geo[1],
                          longitude |-> geo[2], has_photo |-> photo # None]
         photo_record == [id |-> uuid4(UsedIds \cup {attempt_dict.id}),
                          attempt_id |-> attempt_dict.id, user_id |-> user_id,
                          timestamp |-> now, photo_base64 |-> photo[1]]
     IN IF Truthy(photo)
        THEN /\ IF write_ok
                THEN /\ intruder_photos' = Append(intruder_photos, photo_record)
                     /\ req' = [req EXCEPT ![r] =
                                  [pc |-> "insert_attempt", args |-> args,
                                   attempt_dict |-> attempt_dict]]
                     /\ last' = NoResponse
                ELSE /\ Respond(r, "send_failed_alert", args, InternalServerError)
                     /\ UNCHANGED intruder_photos
             /\ UNCHANGED failed_attempts
        ELSE /\ InsertAttempt(r, args, attempt_dict, write_ok)
             /\ UNCHANGED intruder_photos
  /\ UNCHANGED <<users, now, documents, deleted_ids, access_logs, sendgrid_key, sg_result>>

\* send_failed_alert, after the photo's insert, at the attempt's insert.
SendAlertInsertAttempt(r, write_ok) ==
  /\ req[r].pc = "insert_attempt"
  /\ InsertAttempt(r, req[r].args, req[r].attempt_dict, write_ok)
  /\ UNCHANGED <<users, intruder_photos, now, documents, deleted_ids, access_logs, sendgrid_key, sg_result>>

\* A dispatch that reports every message the provider answered as sent.
send_failed_attempt_email_any_status(key, outcome) ==
  IF key = None THEN FALSE ELSE ~outcome.raised

\* send_failed_attempt_email: False without the API key, False when building
\* or sending raises, and otherwise whether the provider answered 202.
send_failed_attempt_email(key, outcome) ==
  IF key = None THEN FALSE
  ELSE IF outcome.raised THEN FALSE
  ELSE outcome.status_code = 202

\* send_failed_alert from "await send_failed_attempt_email(...)" to its
\* return; outcome is what the provider does if the message gets to it.
SendAlertEmail(r, outcome) ==
  /\ req[r].pc = "send_email"
  /\ sg_result' = IF sendgrid_key = None THEN sg_result ELSE outcome
  /\ LET success == send_failed_attempt_email(sendgrid_key, outcome)
     IN Respond(r, "send_failed_alert", req[r].args,
                Ok([success |-> success,
                    message |-> IF success THEN "Security alert with photo sent"
                                ELSE "Failed to send alert (check SendGrid API key)"]))
  /\ UNCHANGED <<users, failed_attempts, intruder_photos, now, documents, deleted_ids, access_logs, sendgrid_key>>

\* The address alerts go to.
AlertEmails == {<<"a", "@", "x">>}

\* The PIN users register with where the ledger is the subject.
AlertPins == {"1234"}

\* The client of the ledger's handlers is one: what is said of them is said
\* of a request's own steps.
LedgerReqs == {"r1"}

\* The handlers of the failed-attempt ledger and of the users they are
\* about; WriteOutcomes says whether send_failed_alert's writes may fail.
NextLedger(WriteOutcomes) ==
  \/ \E r \in LedgerReqs, email \in AlertEmails, pin \in AlertPins :
       CreateUserFind(r, email, pin)
  \/ \E r \in LedgerReqs : CreateUserInsert(r)
  \/ \E r \in LedgerReqs, id \in UserIds, pin \in Pins : VerifyUserPin(r, id, pin)
  \/ \E r \in LedgerReqs, id \in UserIds, geo \in Geos : LogFailedAttempt(r, id, geo)
  \/ \E r \in LedgerReqs, id \in UserIds, email \in AlertEmails, geo \in Geos,
        photo \in Photos, write_ok \in WriteOutcomes :
       SendAlertCall(r, id, email, geo, photo, write_ok)
  \/ \E r \in LedgerReqs, write_ok \in WriteOutcomes :
       SendAlertInsertAttempt(r, write_ok)
  \/ \E r \in LedgerReqs, outcome \in ProviderOutcomes : SendAlertEmail(r, outcome)

NextAlert == NextLedger({TRUE})

\* The failed-attempt ledger and the alerts, every storage write succeeding.
SpecAlert == Init /\ [][NextAlert]_vars

NextFaults == NextLedger(BOOLEAN)

\* The same, where a write of send_failed_alert may fail.
SpecFaults == Init /\ [][NextFaults]_vars

\* ------------------------------------------------- access ledger routes

\* The clock moves on.
Tick ==
  /\ now < MaxTime
  /\ now' = now + 1
  /\ last' = NoResponse
  /\ UNCHANGED <<users, failed_attempts, intruder_photos, documents, deleted_ids, access_logs,
                 req, sendgrid_key, sg_result>>

\* collection.find(filter): the documents matching, in stored order.
Find(coll, filter) ==
  LET Test(doc) == Matches(doc, filter)
  IN SelectSeq(coll, Test)

\* A sequence back to front.
Reverse(seq) == [i \in 1..Len(seq) |-> seq[Len(seq) + 1 - i]]

\* The orders in which a sort may leave documents of equal key.
TieOrders == {"stored", "reversed"}

\* The documents of seq stamped t, in the order tie leaves them.
Stamped(seq, t, tie) ==
  LET Test(doc) == doc.timestamp = t
  IN IF tie = "stored" THEN SelectSeq(seq, Test) ELSE Reverse(SelectSeq(seq, Test))

\* The documents of seq stamped t or earlier, latest first.
RECURSIVE LatestFirstFrom(_, _, _)
LatestFirstFrom(seq, t, tie) ==
  IF t < 0 THEN <<>>
  ELSE Stamped(seq, t, tie) \o LatestFirstFrom(seq, t - 1, tie)

\* A cursor that is not sorted.
SortTimestampDesc_Unsorted(seq, tie) == seq

\* cursor.sort("timestamp", -1): latest first.
SortTimestampDesc(seq, tie) == LatestFirstFrom(seq, now, tie)

\* A cursor read to its end.
ToList_Unlimited(seq, length) == seq

\* cursor.to_list(length): the first length documents.
ToList(seq, length) ==
  SubSeq(seq, 1, IF Len(seq) < length THEN Len(seq) ELSE length)

\* Access records added to those access_logs started with: none, or as many
\* as the cap of get_access_logs.
AccessAdded ==
  Len(access_logs)
    - (IF Len(access_logs) >= AccessLogsCap THEN AccessLogsCap ELSE 0)

\* log_officer_access replacing the latest record instead of adding one.
LogOfficerAccess_Replace(r, access) ==
  /\ req[r].pc = "idle"
  /\ AccessAdded < MaxAccess
  /\ LET access_dict ==
           [id |-> uuid4(UsedIds), user_id |-> access.user_id,
            officer_name |-> access.officer_name,
            badge_number |-> access.badge_number, timestamp |-> now,
            latitude |-> access.latitude, longitude |-> access.longitude,
            address |-> access.address,
            documents_viewed |-> access.documents_viewed]
     IN /\ access_logs' = IF access_logs = <<>> THEN <<access_dict>>
                          ELSE [access_logs EXCEPT ![Len(access_logs)] = access_dict]
        /\ Respond(r, "log_officer_access", access, Ok(access_dict))
  /\ UNCHANGED <<users, failed_attempts, intruder_photos, documents, deleted_ids, now,
                 sendgrid_key, sg_result>>

\* log_officer_access
LogOfficerAccess(r, access) ==
  /\ req[r].pc = "idle"
  /\ AccessAdded < MaxAccess
  /\ LET access_dict ==
           [id |-> uuid4(UsedIds), user_id |-> access.user_id,
            officer_name |-> access.officer_name,
            badge_number |-> access.badge_number, timestamp |-> now,
            latitude |-> access.latitude, longitude |-> access.longitude,
            address |-> access.address,
            documents_viewed |-> access.documents_viewed]
     IN /\ access_logs' = Append(access_logs, access_dict)
        /\ Respond(r, "log_officer_access", access, Ok(access_dict))
  /\ UNCHANGED <<users, failed_attempts, intruder_photos, documents, deleted_ids, now,
                 sendgrid_key, sg_result>>

\* get_access_logs; tie is the order the sort leaves equal timestamps in.
GetAccessLogs(r, user_id, tie) ==
  /\ req[r].pc = "idle"
  /\ LET logs == ToList(SortTimestampDesc(Find(access_logs, [user_id |-> user_id]),
                                          tie),
                        AccessLogsCap)
     IN Respond(r, "get_access_logs", [user_id |-> user_id], Ok([items |-> logs]))
  /\ UNCHANGED <<users, failed_attempts, intruder_photos, documents, deleted_ids, access_logs,
                 now, sendgrid_key, sg_result>>

\* get_failed_attempts, with its projection to id, timestamp, latitude and
\* longitude.
GetFailedAttempts(r, user_id, tie) ==
  /\ req[r].pc = "idle"
  /\ LET attempts ==
           ToList(SortTimestampDesc(Find(failed_attempts, [user_id |-> user_id]),
                                    tie),
                  FailedAttemptsCap)
     IN Respond(r, "get_failed_attempts", [user_id |-> user_id],
                Ok([items |-> [i \in 1..Len(attempts) |->
                                 [id |-> attempts[i].id,
                                  timestamp |-> attempts[i].timestamp,
                                  latitude |-> attempts[i].latitude,
                                  longitude |-> attempts[i].longitude]]]))
  /\ UNCHANGED <<users, failed_attempts, intruder_photos, documents, deleted_ids, access_logs,
                 now, sendgrid_key, sg_result>>

\* The users whose ledger is kept.
LedgerUserIds == {1, 2}

\* The access events a client may log.
AccessCreates ==
  {[user_id |-> u, officer_name |-> "Officer Smith", badge_number |-> "B-1",
    latitude |-> None, longitude |-> None, address |-> None,
    documents_viewed |-> <<>>] : u \in LedgerUserIds}

\* The location failed attempts are logged with.
LedgerGeos == {<<None, None>>}

\* A collection filled to the cap of its listing: so many events of user 1
\* logged at time 0.
FullAttempts ==
  [i \in 1..FailedAttemptsCap |->
     [id |-> i, user_id |-> 1, timestamp |-> 0, latitude |-> None,
      longitude |-> None]]

FullAccess ==
  [i \in 1..AccessLogsCap |->
     [id |-> i, user_id |-> 1,
      officer_name |-> "Officer Smith", badge_number |-> "B-1", timestamp |-> 0,
      latitude |-> None, longitude |-> None, address |-> None,
      documents_viewed |-> <<>>]]

\* The photo of the alerts where the ledger's records are the subject.
LedgerPhotos == {None, Some("data:image/jpeg;base64,AAAA")}

\* The collections empty and no mail provider configured.
InitAccess == Init /\ sendgrid_key = None

\* Records logged since the start, those of alerts in flight included.
LedgerAdded == AttemptsClaimed + AccessAdded

NextAccess ==
  \/ Tick
  \/ \E r \in LedgerReqs, access \in AccessCreates :
       LedgerAdded < MaxLogged /\ LogOfficerAccess(r, access)
  \/ \E r \in LedgerReqs, id \in LedgerUserIds, geo \in LedgerGeos :
       LedgerAdded < MaxLogged /\ LogFailedAttempt(r, id, geo)
  \/ \E r \in LedgerReqs, id \in LedgerUserIds, email \in AlertEmails,
        geo \in LedgerGeos, photo \in LedgerPhotos :
       LedgerAdded < MaxLogged /\ SendAlertCall(r, id, email, geo, photo, TRUE)
  \/ \E r \in LedgerReqs : SendAlertInsertAttempt(r, TRUE)
  \/ \E r \in LedgerReqs, outcome \in ProviderOutcomes : SendAlertEmail(r, outcome)
  \/ \E r \in LedgerReqs, id \in LedgerUserIds, tie \in TieOrders :
       GetAccessLogs(r, id, tie)
  \/ \E r \in LedgerReqs, id \in LedgerUserIds, tie \in TieOrders :
       GetFailedAttempts(r, id, tie)

\* The access ledger: every handler that reads or writes it, as the clock
\* moves.
SpecAccess == InitAccess /\ [][NextAccess]_vars

\* The ledger empty, or one of its collections filled to the cap of its
\* listing.
InitListing ==
  /\ users = <<>>
  /\ intruder_photos = <<>>
  /\ documents = <<>>
  /\ deleted_ids = {}
  /\ \/ failed_attempts = <<>> /\ access_logs = <<>>
     \/ failed_attempts = FullAttempts /\ access_logs = <<>>
     \/ failed_attempts = <<>> /\ access_logs = FullAccess
  /\ req = [r \in Reqs |-> Idle]
  /\ last = NoResponse
  /\ now = 0
  /\ sendgrid_key = None
  /\ sg_result = NotSent

NextListing ==
  \/ Tick
  \/ \E r \in LedgerReqs, access \in AccessCreates :
       LedgerAdded < MaxListed /\ LogOfficerAccess(r, access)
  \/ \E r \in LedgerReqs, id \in LedgerUserIds, geo \in LedgerGeos :
       LedgerAdded < MaxListed /\ LogFailedAttempt(r, id, geo)
  \/ \E r \in LedgerReqs, id \in LedgerUserIds, tie \in TieOrders :
       GetAccessLogs(r, id, tie)
  \/ \E r \in LedgerReqs, id \in LedgerUserIds, tie \in TieOrders :
       GetFailedAttempts(r, id, tie)

\* The listings of the ledger, up to and past their caps.
SpecListing == InitListing /\ [][NextListing]_vars

\* --------------------------------------------------------- document routes

\* collection.delete_one(filter): the collection without the first document
\* matching.
DeleteOne(coll, filter) ==
  LET hits == {i \in 1..Len(coll) : Matches(coll[i], filter)}
  IN IF hits = {} THEN coll
     ELSE LET k == CHOOSE i \in hits : \A j \in hits : i <= j
          IN SubSeq(coll, 1, k - 1) \o SubSeq(coll, k + 1, Len(coll))

\* The documents the collection started with: none, or as many as the cap of
\* the document listings.
DocsBase ==
  IF Len(documents) + Cardinality(deleted_ids) >= DocumentsCap
  THEN DocumentsCap ELSE 0

\* Documents created since the start.
DocsCreated == Len(documents) + Cardinality(deleted_ids) - DocsBase

\* create_document
CreateDocument(r, doc) ==
  /\ req[r].pc = "idle"
  /\ DocsCreated < MaxDocs
  /\ LET doc_dict ==
           [id |-> uuid4(UsedIds), user_id |-> doc.user_id,
            doc_type |-> doc.doc_type, name |-> doc.name,
            image_base64 |-> doc.image_base64,
            created_at |-> now, updated_at |-> now]
     IN /\ documents' = Append(documents, doc_dict)
        /\ Respond(r, "create_document", doc, Ok(doc_dict))
  /\ UNCHANGED <<users, failed_attempts, intruder_photos, deleted_ids, access_logs,
                 now, sendgrid_key, sg_result>>

\* get_user_documents
GetUserDocuments(r, user_id) ==
  /\ req[r].pc = "idle"
  /\ LET docs == ToList(Find(documents, [user_id |-> user_id]), DocumentsCap)
     IN Respond(r, "get_user_documents", [user_id |-> user_id], Ok([items |-> docs]))
  /\ UNCHANGED <<users, failed_attempts, intruder_photos, documents, deleted_ids,
                 access_logs, now, sendgrid_key, sg_result>>

\* A listing by type that filters by user only.
GetDocumentsByType_AnyType(r, user_id, doc_type) ==
  /\ req[r].pc = "idle"
  /\ LET docs == ToList(Find(documents, [user_id |-> user_id]), DocumentsCap)
     IN Respond(r, "get_documents_by_type",
                [user_id |-> user_id, doc_type |-> doc_type], Ok([items |-> docs]))
  /\ UNCHANGED <<users, failed_attempts, intruder_photos, documents, deleted_ids,
                 access_logs, now, sendgrid_key, sg_result>>

\* get_documents_by_type
GetDocumentsByType(r, user_id, doc_type) ==
  /\ req[r].pc = "idle"
  /\ LET docs == ToList(Find(documents,
                             [user_id |-> user_id, doc_type |-> doc_type]),
                        DocumentsCap)
     IN Respond(r, "get_documents_by_type",
                [user_id |-> user_id, doc_type |-> doc_type], Ok([items |-> docs]))
  /\ UNCHANGED <<users, failed_attempts, intruder_photos, documents, deleted_ids,
                 access_logs, now, sendgrid_key, sg_result>>

\* A delete that reports success whatever it deleted.
DeleteDocument_NoCheck(r, doc_id) ==
  /\ req[r].pc = "idle"
  /\ LET after == DeleteOne(documents, [id |-> doc_id])
     IN /\ documents' = after
        /\ deleted_ids' = IF Len(after) = Len(documents) THEN deleted_ids
                          ELSE deleted_ids \cup {doc_id}
        /\ Respond(r, "delete_document", [doc_id |-> doc_id],
                   Ok([success |-> TRUE, message |-> "Document deleted"]))
  /\ UNCHANGED <<users, failed_attempts, intruder_photos, access_logs, now,
                 sendgrid_key, sg_result>>

\* delete_document
DeleteDocument(r, doc_id) ==
  /\ req[r].pc = "idle"
  /\ LET after == DeleteOne(documents, [id |-> doc_id])
         deleted_count == Len(documents) - Len(after)
     IN /\ documents' = after
        /\ deleted_ids' = IF deleted_count = 0 THEN deleted_ids
                          ELSE deleted_ids \cup {doc_id}
        /\ Respond(r, "delete_document", [doc_id |-> doc_id],
                   IF deleted_count = 0
                   THEN HTTPException(404, "Document not found")
                   ELSE Ok([success |-> TRUE, message |-> "Document deleted"]))
  /\ UNCHANGED <<users, failed_attempts, intruder_photos, access_logs, now,
                 sendgrid_key, sg_result>>

\* update_document: update_data holds updated_at, and name and image_base64
\* when they are truthy.
UpdateDocument(r, doc_id, name, image_base64) ==
  /\ req[r].pc = "idle"
  /\ LET update_data ==
           IF Truthy(name)
           THEN IF Truthy(image_base64)
                THEN [updated_at |-> now, name |-> name[1],
                      image_base64 |-> image_base64[1]]
                ELSE [updated_at |-> now, name |-> name[1]]
           ELSE IF Truthy(image_base64)
                THEN [updated_at |-> now, image_base64 |-> image_base64[1]]
                ELSE [updated_at |-> now]
         matched_count ==
           IF FindOne(documents, [id |-> doc_id]) = None THEN 0 ELSE 1
     IN /\ documents' = UpdateOne(documents, [id |-> doc_id], update_data)
        /\ Respond(r, "update_document",
                   [doc_id |-> doc_id, name |-> name, image_base64 |-> image_base64],
                   IF matched_count = 0
                   THEN HTTPException(404, "Document not found")
                   ELSE Ok([success |-> TRUE, message |-> "Document updated"]))
  /\ UNCHANGED <<users, failed_attempts, intruder_photos, deleted_ids, access_logs,
                 now, sendgrid_key, sg_result>>

\* The client of the document handlers is one: each handler is one storage
\* call.
DocReqs == {"r1"}

\* The owners documents are created for, and their types.
DocUserIds == {1, 2}

DocTypes == {"id", "permit"}

DocCreates ==
  {[user_id |-> u, doc_type |-> t, name |-> "License", image_base64 |-> "aW1n"] :
     u \in DocUserIds, t \in DocTypes}

\* What update_document is given for name and for image_base64.
NewNames == {None, Some(""), Some("Passport")}

NewImages == {None, Some(""), Some("bmV3")}

\* The ids delete_document and update_document are given: one never issued,
\* the first ever issued, and those of the documents created since the start.
DocIds == {0, 1} \cup {id \in UsedIds : id > DocsBase}

\* A collection filled to the cap of its listings: so many documents of user
\* 1 and type "id".
FullDocuments ==
  [i \in 1..DocumentsCap |->
     [id |-> i, user_id |-> 1, doc_type |-> "id", name |-> "License",
      image_base64 |-> "aW1n", created_at |-> 0, updated_at |-> 0]]

InitDocs == Init /\ sendgrid_key = None

NextDocs ==
  \/ Tick
  \/ \E r \in DocReqs, doc \in DocCreates : CreateDocument(r, doc)
  \/ \E r \in DocReqs, doc_id \in DocIds : DeleteDocument(r, doc_id)
  \/ \E r \in DocReqs, doc_id \in DocIds, name \in NewNames, image \in NewImages :
       UpdateDocument(r, doc_id, name, image)

\* The document store written: documents created, updated and deleted as the
\* clock moves.
SpecDocs == InitDocs /\ [][NextDocs]_vars

\* The document collection empty, or filled to the cap of its listings.
InitDocListing ==
  /\ users = <<>>
  /\ failed_attempts = <<>>
  /\ intruder_photos = <<>>
  /\ documents \in {<<>>, FullDocuments}
  /\ deleted_ids = {}
  /\ access_logs = <<>>
  /\ req = [r \in Reqs |-> Idle]
  /\ last = NoResponse
  /\ now = 0
  /\ sendgrid_key = None
  /\ sg_result = NotSent

NextDocListing ==
  \/ \E r \in DocReqs, doc \in DocCreates : CreateDocument(r, doc)
  \/ \E r \in DocReqs, doc_id \in DocIds : DeleteDocument(r, doc_id)
  \/ \E r \in DocReqs, user_id \in DocUserIds : GetUserDocuments(r, user_id)
  \/ \E r \in DocReqs, user_id \in DocUserIds, doc_type \in DocTypes :
       GetDocumentsByType(r, user_id, doc_type)

\* The document store listed, up to and past the cap of the listings.
SpecDocListing == InitDocListing /\ [][NextDocListing]_vars

\* ----------------------------------------------------- credential store claims

\* Some user of the collection us is registered under email.
EmailStored(us, email) == \E i \in 1..Len(us) : us[i].email = email

\* Some user of the collection us has this id.
IdStored(us, id) == \E i \in 1..Len(us) : us[i].id = id

\* The user of us with this id (ids are unique).
UserById(us, id) == us[CHOOSE i \in 1..Len(us) : us[i].id = id]

\* This step sends client r's response to operation op.
Responded(r, op) == last'.req = r /\ last'.op = op

\* C1: in every reachable state no two stored User records have the same
\* email, under any interleaving of concurrent create_user requests.
C1_UniqueEmail ==
  \A i, j \in 1..Len(users) : users[i].email = users[j].email => i = j

\* C2: a create_user call finding a user stored under its email answers 400
\* and leaves the users collection as it was; a call finding none goes on to
\* insert, and the insert adds exactly one user, the one whose public view
\* (id, email, created_at, is_premium; no pin_hash) is returned with 200.
C2_CreateUserContract ==
  [][\A r \in Reqs :
       /\ (req[r].pc = "idle" /\ req'[r].pc = "insert_user")
            => /\ ~EmailStored(users, req'[r].args.email)
               /\ users' = users
               /\ last' = NoResponse
       /\ (req[r].pc = "idle" /\ Responded(r, "create_user"))
            => /\ EmailStored(users, last'.args.email)
               /\ last'.status = 400
               /\ users' = users
       /\ (req[r].pc = "insert_user" /\ req'[r].pc # "insert_user")
            => /\ Responded(r, "create_user")
               /\ last'.status = 200
               /\ Len(users') = Len(users) + 1
               /\ SubSeq(users', 1, Len(users)) = users
               /\ users'[Len(users')].email = last'.args.email
               /\ users'[Len(users')].pin_hash = hash_pin(last'.args.pin)
               /\ ~IdStored(users, users'[Len(users')].id)
               /\ DOMAIN last'.body = {"id", "email", "created_at", "is_premium"}
               /\ last'.body = [f \in DOMAIN last'.body |-> users'[Len(users')][f]]
  ]_vars

\* A create_user call was refused with 400 while its email was stored.
C2_Witness ==
  /\ last.op = "create_user" /\ last.status = 400
  /\ EmailStored(users, last.args.email)

\* C3: whenever a user is registered under the requested email E,
\* get_user_by_email(E) answers 200 with a user whose email is E; it answers
\* 404 only when no user is registered under E.
C3_LookupFindsRegistered ==
  [][\A r \in Reqs :
       (Responded(r, "get_user_by_email") /\ EmailStored(users, last'.args.email))
         => (last'.status = 200 /\ last'.body.email = last'.args.email)
  ]_vars

\* C4 as stated: after update_pin(id, old, new) succeeds, verify(id, old) is
\* false and verify(id, new) is true, for every pair of PINs.
C4_ChangePinThenVerify_AnyPair ==
  [][\A r \in Reqs :
       (Responded(r, "update_pin") /\ last'.status = 200)
         => /\ VerifyUserPinResponse(users', last'.args.user_id,
                                      last'.args.new_pin).body.success
            /\ ~VerifyUserPinResponse(users', last'.args.user_id,
                                       last'.args.old_pin).body.success
  ]_vars

\* C4: after update_pin(id, old, new) succeeds, verify(id, new) is true, and
\* verify(id, old) is false provided old and new are different PINs.
C4_ChangePinThenVerify ==
  [][\A r \in Reqs :
       (Responded(r, "update_pin") /\ last'.status = 200)
         => /\ VerifyUserPinResponse(users', last'.args.user_id,
                                      last'.args.new_pin).status = 200
            /\ VerifyUserPinResponse(users', last'.args.user_id,
                                      last'.args.new_pin).body.success
            /\ last'.args.old_pin # last'.args.new_pin
                 => ~VerifyUserPinResponse(users', last'.args.user_id,
                                           last'.args.old_pin).body.success
  ]_vars

\* update_pin succeeded with different old and new PINs.
C4_Witness ==
  /\ last.op = "update_pin" /\ last.status = 200
  /\ last.args.old_pin # last.args.new_pin

\* C5: verify_user_pin on a stored user answers 200 with success true
\* exactly when the digest of the PIN is the user's stored pin_hash; on an id
\* no user has it answers 404.
C5_VerifyIffDigestMatches ==
  [][\A r \in Reqs :
       Responded(r, "verify_user_pin")
         => IF IdStored(users, last'.args.user_id)
            THEN /\ last'.status = 200
                 /\ last'.body.success
                      = (hash_pin(last'.args.pin)
                           = UserById(users, last'.args.user_id).pin_hash)
            ELSE last'.status = 404
  ]_vars

\* verify_user_pin refused a wrong PIN of a stored user.
C5_Witness ==
  /\ last.op = "verify_user_pin" /\ last.status = 200 /\ ~last.body.success
  /\ IdStored(users, last.args.user_id)

\* C6: update_pin answers 404 when no user has the id and 401 when old_pin
\* does not verify against the stored digest, and neither changes a stored
\* user; a successful update_pin changes the pin_hash of that user alone, to
\* the digest of new_pin.
C6_ChangePinContract ==
  [][\A r \in Reqs :
       /\ (req[r].pc = "idle" /\ Responded(r, "update_pin"))
            => /\ users' = users
               /\ IF ~IdStored(users, last'.args.user_id) THEN last'.status = 404
                  ELSE /\ last'.status = 401
                       /\ ~verify_pin(last'.args.old_pin,
                                      UserById(users, last'.args.user_id).pin_hash)
       /\ (req[r].pc = "idle" /\ req'[r].pc = "update_pin")
            => /\ users' = users
               /\ IdStored(users, req'[r].args.user_id)
               /\ verify_pin(req'[r].args.old_pin,
                             UserById(users, req'[r].args.user_id).pin_hash)
       /\ (req[r].pc = "update_pin" /\ req'[r].pc # "update_pin")
            => /\ Responded(r, "update_pin") /\ last'.status = 200
               /\ Len(users') = Len(users)
               /\ \A i \in 1..Len(users) :
                    users'[i] = IF users[i].id = last'.args.user_id
                                THEN [users[i] EXCEPT
                                        !.pin_hash = hash_pin(last'.args.new_pin)]
                                ELSE users[i]
  ]_vars

\* update_pin was refused with 401 while another user is stored too.
C6_Witness ==
  /\ last.op = "update_pin" /\ last.status = 401
  /\ Len(users) = 2

\* C16: concurrent update_pin requests for one user race, the last write
\* winning. A request checks old_pin against the digest it reads and writes
\* in a later step; once it has passed the check its write answers success
\* and stores the digest of its new_pin, whatever digest is stored by then,
\* so two requests that passed the check on the same digest both succeed and
\* the digest stored after both is that of the later writer's new_pin.
C16_PinChangeLastWriteWins ==
  [][\A r \in Reqs :
       /\ (req[r].pc = "idle" /\ req'[r].pc = "update_pin")
            => /\ IdStored(users, req'[r].args.user_id)
               /\ verify_pin(req'[r].args.old_pin,
                             UserById(users, req'[r].args.user_id).pin_hash)
               /\ users' = users
       /\ (req[r].pc = "update_pin" /\ req'[r].pc # "update_pin")
            => /\ Responded(r, "update_pin")
               /\ last'.status = 200
               /\ last'.body.success
               /\ UserById(users', req[r].args.user_id).pin_hash
                    = hash_pin(req[r].args.new_pin)
  ]_vars

\* One of two requests that passed the check on the same digest has written,
\* and the other, whose old_pin the stored digest no longer matches, is
\* still to write.
C16_Witness ==
  \E r \in Reqs :
    /\ req[r].pc = "update_pin"
    /\ last.op = "update_pin" /\ last.status = 200 /\ last.req # r
    /\ last.args.user_id = req[r].args.user_id
    /\ last.args.old_pin = req[r].args.old_pin
    /\ ~verify_pin(req[r].args.old_pin,
                   UserById(users, req[r].args.user_id).pin_hash)

\* ------------------------------------------------------------ ledger claims

\* This step is the first of a send_failed_alert request of client r.
AlertStarted(r) ==
  req[r].pc = "idle" /\ req'[r].pc \in {"insert_attempt", "send_email"}

\* C7: every send_failed_alert request adds exactly one FailedAttempt,
\* whatever the dispatch does; a request with a photo (any non-null value)
\* adds exactly one IntruderPhoto, whose attempt_id is the id of that
\* attempt; a request without one adds no IntruderPhoto.
C7_AlertPersistsAttemptAndPhoto ==
  [][\A r \in Reqs :
       /\ (AlertStarted(r) /\ req'[r].args.intruder_photo # None)
            => /\ Len(intruder_photos') = Len(intruder_photos) + 1
               /\ SubSeq(intruder_photos', 1, Len(intruder_photos)) = intruder_photos
               /\ intruder_photos'[Len(intruder_photos')].attempt_id
                    = req'[r].attempt_dict.id
       /\ (AlertStarted(r) /\ req'[r].args.intruder_photo = None)
            => intruder_photos' = intruder_photos
       /\ (req[r].pc # "send_email" /\ req'[r].pc = "send_email")
            => failed_attempts' = Append(failed_attempts, req'[r].attempt_dict)
       /\ (req[r].pc = "idle" /\ req'[r].pc = "insert_attempt")
            => failed_attempts' = failed_attempts
       /\ (req[r].pc = "insert_attempt" /\ req'[r].pc # "insert_attempt")
            => req'[r].pc = "send_email" /\ intruder_photos' = intruder_photos
       /\ (req[r].pc = "send_email" /\ req'[r].pc # "send_email")
            => /\ Responded(r, "send_failed_alert")
               /\ failed_attempts' = failed_attempts
               /\ intruder_photos' = intruder_photos
  ]_vars

\* C8: both parts of a send_failed_alert request are attempted even if one
\* fails: the request is answered only from its dispatch step, also when a
\* write of the persistence part failed, and the dispatch step, whatever its
\* outcome, leaves the stored attempt and photos as they are.
C8_BothPartsAttempted ==
  [][\A r \in Reqs :
       /\ Responded(r, "send_failed_alert") => req[r].pc = "send_email"
       /\ (req[r].pc = "send_email" /\ req'[r].pc # "send_email")
            => /\ failed_attempts' = failed_attempts
               /\ intruder_photos' = intruder_photos
               /\ \E i \in 1..Len(failed_attempts') :
                    failed_attempts'[i] = req[r].attempt_dict
  ]_vars

\* C9: the dispatch step of send_failed_alert always answers 200 with a
\* success flag and a message; the flag is true exactly when the API key is
\* configured and the provider answered this message with 202, and false when
\* the key is absent (nothing is sent), when sending raised, and on any other
\* status.
C9_DispatchFailureIsReported ==
  [][\A r \in Reqs :
       (req[r].pc = "send_email" /\ req'[r].pc # "send_email")
         => /\ Responded(r, "send_failed_alert")
            /\ last'.status = 200
            /\ DOMAIN last'.body = {"success", "message"}
            /\ last'.body.success
                 = (/\ sendgrid_key # None
                    /\ sg_result'.called
                    /\ ~sg_result'.raised
                    /\ sg_result'.status_code = 202)
            /\ sendgrid_key = None => sg_result' = sg_result
  ]_vars

\* An alert was answered 200 with success false after sending raised.
C9_Witness ==
  /\ last.op = "send_failed_alert" /\ last.status = 200 /\ ~last.body.success
  /\ sg_result.raised

\* C10 as stated: after verify_user_pin refuses the PIN of a stored user, a
\* new FailedAttempt of that user is in failed_attempts.
C10_FailedVerifyLogsAttempt ==
  [][\A r \in Reqs :
       (Responded(r, "verify_user_pin") /\ last'.status = 200 /\ ~last'.body.success)
         => /\ Len(failed_attempts') = Len(failed_attempts) + 1
            /\ failed_attempts'[Len(failed_attempts')].user_id = last'.args.user_id
  ]_vars

\* C10: verify_user_pin, whatever it answers, leaves failed_attempts and
\* intruder_photos as they are; it is log_failed_attempt that adds a new
\* FailedAttempt of the user it names, once per call.
C10_VerifyLeavesLedger ==
  [][\A r \in Reqs :
       /\ Responded(r, "verify_user_pin")
            => /\ failed_attempts' = failed_attempts
               /\ intruder_photos' = intruder_photos
       /\ Responded(r, "log_failed_attempt")
            => /\ Len(failed_attempts') = Len(failed_attempts) + 1
               /\ SubSeq(failed_attempts', 1, Len(failed_attempts)) = failed_attempts
               /\ failed_attempts'[Len(failed_attempts')].user_id = last'.args.user_id
               /\ \A i \in 1..Len(failed_attempts) :
                    failed_attempts[i].id # failed_attempts'[Len(failed_attempts')].id
  ]_vars

\* verify_user_pin refused the PIN of a stored user of whom no FailedAttempt
\* is stored.
C10_Witness ==
  /\ last.op = "verify_user_pin" /\ last.status = 200 /\ ~last.body.success
  /\ \A i \in 1..Len(failed_attempts) : failed_attempts[i].user_id # last.args.user_id

\* C17: in every reachable state, those between the storage writes of a
\* send_failed_alert in flight included, the attempt_id of every stored
\* IntruderPhoto is the id of a stored FailedAttempt of the same user_id.
C17_PhotoReferencesStoredAttempt ==
  \A i \in 1..Len(intruder_photos) :
    \E j \in 1..Len(failed_attempts) :
      /\ failed_attempts[j].id = intruder_photos[i].attempt_id
      /\ failed_attempts[j].user_id = intruder_photos[i].user_id

\* ---------------------------------------------------- access ledger claims

\* The records of before are the first records of after, each as it was.
StaysStored(before, after) ==
  /\ Len(before) <= Len(after)
  /\ SubSeq(after, 1, Len(before)) = before

\* C11: the access ledger is append-only. An OfficerAccessRecord or
\* FailedAttempt, once stored, stays stored with every field as it was, under
\* every operation; log_officer_access adds exactly one record to access_logs,
\* the one it returns, and log_failed_attempt exactly one to failed_attempts.
C11_LedgerAppendOnly ==
  [][/\ StaysStored(access_logs, access_logs')
     /\ StaysStored(failed_attempts, failed_attempts')
     /\ \A r \in Reqs :
          /\ Responded(r, "log_officer_access")
               => /\ access_logs' = Append(access_logs, last'.body)
                  /\ failed_attempts' = failed_attempts
          /\ Responded(r, "log_failed_attempt")
               => /\ Len(failed_attempts') = Len(failed_attempts) + 1
                  /\ access_logs' = access_logs
  ]_vars

\* A record was logged in a ledger that holds a record of each kind.
C11_Witness ==
  /\ last.op \in {"log_officer_access", "log_failed_attempt"}
  /\ last.status = 200
  /\ Len(access_logs) >= 1
  /\ Len(failed_attempts) >= 1

\* The records of this user in a collection.
StoredOf(coll, user_id) ==
  {coll[i] : i \in {j \in 1..Len(coll) : coll[j].user_id = user_id}}

\* What get_failed_attempts shows of a stored attempt.
Shown(attempt) ==
  [id |-> attempt.id, timestamp |-> attempt.timestamp,
   latitude |-> attempt.latitude, longitude |-> attempt.longitude]

\* items lists, latest first and each once, all of the records stored when
\* they are no more than cap, and otherwise cap of them with none of the
\* others later than any listed.
ListsLatest(items, stored, cap) ==
  LET listed == {items[i] : i \in 1..Len(items)}
  IN /\ listed \subseteq stored
     /\ Cardinality(listed) = Len(items)
     /\ Len(items) = IF Cardinality(stored) <= cap THEN Cardinality(stored) ELSE cap
     /\ \A i \in 1..(Len(items) - 1) : items[i].timestamp >= items[i + 1].timestamp
     /\ \A rec \in stored \ listed : rec.timestamp <= items[Len(items)].timestamp

\* C12: get_access_logs and get_failed_attempts return entries of the user
\* asked for only, ordered by timestamp descending: all N of the user's
\* records when N is within the cap (1000 access records, 100 failed
\* attempts), and otherwise exactly the cap-many newest.
C12_ListingsLatestFirstCapped ==
  [][\A r \in Reqs :
       /\ Responded(r, "get_access_logs")
            => /\ last'.status = 200
               /\ ListsLatest(last'.body.items,
                              StoredOf(access_logs, last'.args.user_id),
                              AccessLogsCap)
       /\ Responded(r, "get_failed_attempts")
            => /\ last'.status = 200
               /\ ListsLatest(last'.body.items,
                              {Shown(a) : a \in StoredOf(failed_attempts,
                                                         last'.args.user_id)},
                              FailedAttemptsCap)
  ]_vars

\* get_failed_attempts returned as many attempts as its cap, the latest
\* first, of a user with more attempts stored.
C12_Witness ==
  /\ last.op = "get_failed_attempts"
  /\ Len(last.body.items) = FailedAttemptsCap
  /\ Cardinality(StoredOf(failed_attempts, last.args.user_id)) > FailedAttemptsCap
  /\ last.body.items[1].timestamp > last.body.items[FailedAttemptsCap].timestamp

\* ---------------------------------------------------- document store claims

\* A document with this id is in docs.
DocStored(docs, id) == \E i \in 1..Len(docs) : docs[i].id = id

\* docs without the documents of this id.
Without(docs, id) == LET Other(doc) == doc.id # id IN SelectSeq(docs, Other)

\* C13: delete_document of an id that is not stored answers 404 and leaves
\* the collection as it was; of a stored id it answers success and removes
\* that document and no other; of an id deleted before it answers 404.
C13_DeleteContract ==
  [][\A r \in Reqs :
       Responded(r, "delete_document")
         => LET id == last'.args.doc_id
            IN /\ ~DocStored(documents, id)
                    => /\ last'.status = 404
                       /\ documents' = documents
               /\ DocStored(documents, id)
                    => /\ last'.status = 200
                       /\ last'.body.success
                       /\ Len(documents') = Len(documents) - 1
                       /\ documents' = Without(documents, id)
                       /\ ~DocStored(documents', id)
               /\ id \in deleted_ids => last'.status = 404
  ]_vars

\* delete_document answered 404 for the id of a document deleted before,
\* other documents being stored.
C13_Witness ==
  /\ last.op = "delete_document"
  /\ last.status = 404
  /\ last.args.doc_id \in deleted_ids
  /\ documents # <<>>

\* The value a field has after an update given opt for it: the value
\* supplied, and the stored one when none is supplied.
Overwritten(stored, opt) == IF opt = None THEN stored ELSE opt[1]

\* C14: update_document is a partial update. When no document has the id it
\* answers 404 and changes no document; otherwise it answers success, the
\* document of that id has every field supplied (an empty string included)
\* overwritten, every field not supplied as it was, and updated_at
\* refreshed, and every other document is as it was.
C14_PartialUpdate ==
  [][\A r \in Reqs :
       Responded(r, "update_document")
         => LET args == last'.args
            IN IF ~DocStored(documents, args.doc_id)
               THEN last'.status = 404 /\ documents' = documents
               ELSE /\ last'.status = 200
                    /\ Len(documents') = Len(documents)
                    /\ \A i \in 1..Len(documents) :
                         IF documents[i].id = args.doc_id
                         THEN documents'[i] =
                                [documents[i] EXCEPT
                                   !.name = Overwritten(@, args.name),
                                   !.image_base64 = Overwritten(@, args.image_base64),
                                   !.updated_at = now]
                         ELSE documents'[i] = documents[i]
  ]_vars

\* The stored documents of this user, and those of them of this type.
DocsOf(user_id) ==
  {documents[i] : i \in {j \in 1..Len(documents) : documents[j].user_id = user_id}}

DocsOfType(user_id, doc_type) ==
  {doc \in DocsOf(user_id) : doc.doc_type = doc_type}

\* items lists, each once, all of the documents stored when they are no more
\* than cap, and otherwise cap of them.
ListsStored(items, stored, cap) ==
  LET listed == {items[i] : i \in 1..Len(items)}
  IN /\ listed \subseteq stored
     /\ Cardinality(listed) = Len(items)
     /\ Len(items) = IF Cardinality(stored) <= cap THEN Cardinality(stored) ELSE cap

\* C15: get_documents_by_type(U, T) returns exactly the stored documents of
\* user U and type T, up to the cap of 100, and never a document of another
\* user or type; get_user_documents(U) returns exactly the stored documents
\* of U, up to the same cap.
C15_DocumentListings ==
  [][\A r \in Reqs :
       /\ Responded(r, "get_documents_by_type")
            => /\ last'.status = 200
               /\ ListsStored(last'.body.items,
                              DocsOfType(last'.args.user_id, last'.args.doc_type),
                              DocumentsCap)
               /\ \A i \in 1..Len(last'.body.items) :
                    /\ last'.body.items[i].user_id = last'.args.user_id
                    /\ last'.body.items[i].doc_type = last'.args.doc_type
       /\ Responded(r, "get_user_documents")
            => /\ last'.status = 200
               /\ ListsStored(last'.body.items, DocsOf(last'.args.user_id),
                              DocumentsCap)
  ]_vars

\* get_documents_by_type returned as many documents as the cap, of a user
\* with more documents of the type stored, and with one of another type.
C15_Witness ==
  /\ last.op = "get_documents_by_type"
  /\ Len(last.body.items) = DocumentsCap
  /\ Cardinality(DocsOfType(last.args.user_id, last.args.doc_type)) > DocumentsCap
  /\ DocsOf(last.args.user_id) # DocsOfType(last.args.user_id, last.args.doc_type)

====
